---- MODULE Spec2Model ----
(***************************************************************************)
(* Sigmoid focal loss (imba_explain/losses/focal.py): the function         *)
(* sigmoid_focal_loss and the module FocalLoss wrapping it.                *)
(*                                                                         *)
(* Tensors are records [shape, data]: shape is the sequence of dimensions, *)
(* data the elements in row-major order.  A rank-0 tensor has shape <<>>   *)
(* and one element.  Floating point numbers are fixed-point integers in    *)
(* units of 1/SCALE.  Python's None is the empty sequence and a present    *)
(* optional value x is <<x>>.                                              *)
(***************************************************************************)
EXTENDS Integers, Sequences, FiniteSets, TLC

VARIABLES self, call, out

vars == <<self, call, out>>

(* ------------------------------ bounds -------------------------------- *)
MaxN == 2
MaxC == 2
MaxWeight == 2

(* ------------------------- numbers and None --------------------------- *)
None == <<>>
Some(x) == <<x>>

SCALE == 100
ONE == SCALE

Mul(a, b) == (a * b) \div SCALE
ToFloat(n) == n * SCALE
Max(a, b) == IF a >= b THEN a ELSE b
Abs(a) == IF a >= 0 THEN a ELSE 0 - a

DefaultGamma == 2
DefaultAlpha == 25
DefaultLossWeight == 100

(* ------------------------------ tensors ------------------------------- *)
RECURSIVE Prod(_)
Prod(s) == IF Len(s) = 0 THEN 1 ELSE Head(s) * Prod(Tail(s))

Numel(t) == Prod(t.shape)
Dim(t) == Len(t.shape)

Stride(s, d) == Prod(SubSeq(s, d + 1, Len(s)))
Coord(s, k, d) == ((k - 1) \div Stride(s, d)) % s[d]

Pad(s, n) == [d \in 1..n |-> IF d <= n - Len(s) THEN 1 ELSE s[d - (n - Len(s))]]

Broadcastable(a, b) ==
    LET n == Max(Len(a), Len(b))
        pa == Pad(a, n)
        pb == Pad(b, n)
    IN \A d \in 1..n : pa[d] = pb[d] \/ pa[d] = 1 \/ pb[d] = 1

BroadcastShape(a, b) ==
    LET n == Max(Len(a), Len(b))
        pa == Pad(a, n)
        pb == Pad(b, n)
    IN [d \in 1..n |-> Max(pa[d], pb[d])]

RECURSIVE OffsetFrom(_, _, _, _)
OffsetFrom(tp, r, k, d) ==
    IF d > Len(r) THEN 0
    ELSE (IF tp[d] = 1 THEN 0 ELSE Coord(r, k, d) * Stride(tp, d)) + OffsetFrom(tp, r, k, d + 1)

BIndex(t, r, k) == 1 + OffsetFrom(Pad(t, Len(r)), r, k, 1)

TensorMul(a, b) ==
    LET r == BroadcastShape(a.shape, b.shape)
    IN [shape |-> r,
        data |-> [k \in 1..Prod(r) |->
                    Mul(a.data[BIndex(a.shape, r, k)], b.data[BIndex(b.shape, r, k)])]]

RECURSIVE SumSeq(_)
SumSeq(q) == IF Len(q) = 0 THEN 0 ELSE Head(q) + SumSeq(Tail(q))

Scalar(x) == [shape |-> <<>>, data |-> <<x>>]
TensorSum(t) == Scalar(SumSeq(t.data))
TensorMean(t) == Scalar(SumSeq(t.data) \div Numel(t))
Reshape(t, s) == [shape |-> s, data |-> t.data]
ScalarTimes(c, t) == [shape |-> t.shape, data |-> [k \in 1..Len(t.data) |-> Mul(c, t.data[k])]]

(* ---------------- elementwise numerics (torch primitives) -------------- *)
(* pred.sigmoid(): 1/(1+e^-x), rounded to 1/SCALE; saturates at |x| = 20 *)
Sigmoid(x) ==
    CASE x = -20 -> 0
      [] x = -2 -> 12
      [] x = 0 -> 50
      [] x = 2 -> 88
      [] x = 20 -> 100

(* log(1 + e^-|x|), rounded to 1/SCALE *)
Log1pExpNegAbs(x) ==
    CASE Abs(x) = 0 -> 69
      [] Abs(x) = 2 -> 13
      [] Abs(x) = 20 -> 0

(* F.binary_cross_entropy_with_logits(x, t, reduction='none'), stable form *)
BCEWithLogits(x, t) == Max(ToFloat(x), 0) - Mul(ToFloat(x), t) + Log1pExpNegAbs(x)

(* mutant: a power that takes 0 to 0 under every exponent *)
RECURSIVE Pow_zero_base(_, _)
Pow_zero_base(x, g) ==
    IF x = 0 THEN 0 ELSE IF g = 0 THEN ONE ELSE Mul(x, Pow_zero_base(x, g - 1))

(* Tensor.pow with a whole-number exponent; pow(0, 0) = 1 *)
RECURSIVE Pow(_, _)
Pow(x, g) == IF g = 0 THEN ONE ELSE Mul(x, Pow(x, g - 1))

(* ------------------------- sigmoid_focal_loss ------------------------- *)
Raise(kind, line) == [status |-> kind, at |-> line, value |-> None]
Return(t) == [status |-> "ok", at |-> 0, value |-> Some(t)]

TypeAs(t) == ToFloat(t)
PtOf(x, t) == Mul(ONE - Sigmoid(x), TypeAs(t)) + Mul(Sigmoid(x), ONE - TypeAs(t))
FocalWeight(x, t, gamma, alpha) ==
    Mul(Mul(alpha, TypeAs(t)) + Mul(ONE - alpha, ONE - TypeAs(t)), Pow(PtOf(x, t), gamma))
FocalElem(x, t, gamma, alpha) == Mul(BCEWithLogits(x, TypeAs(t)), FocalWeight(x, t, gamma, alpha))

ElementwiseLoss(pred, target, gamma, alpha) ==
    [shape |-> pred.shape,
     data |-> [k \in 1..Numel(pred) |-> FocalElem(pred.data[k], target.data[k], gamma, alpha)]]

WeightFloat(w) == [shape |-> w.shape, data |-> [k \in 1..Len(w.data) |-> ToFloat(w.data[k])]]

(* mutant: the weight is never reshaped to (N, 1) *)
PrepareWeight_no_reshape(pred, weight) ==
    IF weight = None THEN None ELSE Some(WeightFloat(weight[1]))

PrepareWeight(pred, weight) ==
    IF weight = None THEN None
    ELSE IF Dim(pred) > 1
         THEN Some(Reshape(WeightFloat(weight[1]), <<Numel(weight[1]), 1>>))
         ELSE Some(WeightFloat(weight[1]))

reduce_loss(loss, reduction, avg_factor) ==
    CASE reduction = "none" -> Return(loss)
      [] reduction = "sum" ->
            IF avg_factor = None THEN Return(TensorSum(loss))
            ELSE Raise("InvalidArgument", 51)
      [] reduction = "mean" ->
            IF avg_factor = None THEN Return(TensorMean(loss))
            ELSE Return(Scalar(SumSeq(loss.data) \div avg_factor[1]))
      [] OTHER -> Raise("InvalidArgument", 51)

weight_reduce_loss(loss, weight, reduction, avg_factor) ==
    IF weight = None THEN reduce_loss(loss, reduction, avg_factor)
    ELSE IF ~Broadcastable(loss.shape, weight[1].shape) THEN Raise("RuntimeError", 51)
    ELSE reduce_loss(TensorMul(loss, weight[1]), reduction, avg_factor)

(* mutant: only the element counts of pred and target are compared *)
sigmoid_focal_loss_numel_check(pred, target, weight, gamma, alpha, reduction, avg_factor) ==
    IF Numel(pred) # Numel(target) THEN Raise("ShapeMismatch", 39)
    ELSE IF weight # None /\ Dim(weight[1]) # 1 THEN Raise("InvalidArgument", 47)
    ELSE weight_reduce_loss(ElementwiseLoss(pred, target, gamma, alpha),
                            PrepareWeight(pred, weight), reduction, avg_factor)

(* mutant: the reduction argument is dropped and the default handed on *)
sigmoid_focal_loss_fixed_reduction(pred, target, weight, gamma, alpha, reduction, avg_factor) ==
    IF pred.shape # target.shape THEN Raise("ShapeMismatch", 39)
    ELSE IF weight # None /\ Dim(weight[1]) # 1 THEN Raise("InvalidArgument", 47)
    ELSE weight_reduce_loss(ElementwiseLoss(pred, target, gamma, alpha),
                            PrepareWeight(pred, weight), "mean", avg_factor)

(* mutant: the rank of the weight is not checked *)
sigmoid_focal_loss_no_rank_check(pred, target, weight, gamma, alpha, reduction, avg_factor) ==
    IF pred.shape # target.shape THEN Raise("ShapeMismatch", 39)
    ELSE weight_reduce_loss(ElementwiseLoss(pred, target, gamma, alpha),
                            PrepareWeight(pred, weight), reduction, avg_factor)

(* mutant: avg_factor is not handed on *)
sigmoid_focal_loss_drops_avg_factor(pred, target, weight, gamma, alpha, reduction, avg_factor) ==
    IF pred.shape # target.shape THEN Raise("ShapeMismatch", 39)
    ELSE IF weight # None /\ Dim(weight[1]) # 1 THEN Raise("InvalidArgument", 47)
    ELSE weight_reduce_loss(ElementwiseLoss(pred, target, gamma, alpha),
                            PrepareWeight(pred, weight), reduction, None)

(* mutant: the per-element loss is divided by avg_factor before the reduction *)
sigmoid_focal_loss_prescaled(pred, target, weight, gamma, alpha, reduction, avg_factor) ==
    IF pred.shape # target.shape THEN Raise("ShapeMismatch", 39)
    ELSE IF weight # None /\ Dim(weight[1]) # 1 THEN Raise("InvalidArgument", 47)
    ELSE LET loss == ElementwiseLoss(pred, target, gamma, alpha)
             scaled == IF avg_factor = None THEN loss
                       ELSE [loss EXCEPT !.data = [k \in 1..Len(loss.data) |->
                                                     loss.data[k] \div avg_factor[1]]]
         IN weight_reduce_loss(scaled, PrepareWeight(pred, weight), reduction, avg_factor)

sigmoid_focal_loss(pred, target, weight, gamma, alpha, reduction, avg_factor) ==
    IF pred.shape # target.shape THEN Raise("ShapeMismatch", 39)
    ELSE IF weight # None /\ Dim(weight[1]) # 1 THEN Raise("InvalidArgument", 47)
    ELSE weight_reduce_loss(ElementwiseLoss(pred, target, gamma, alpha),
                            PrepareWeight(pred, weight), reduction, avg_factor)

(* ------------------------------ FocalLoss ------------------------------ *)
FocalLoss(gamma, alpha, reduction, loss_weight) ==
    [gamma |-> gamma, alpha |-> alpha, reduction |-> reduction, loss_weight |-> loss_weight]

Truthy(o) == o # None /\ o # Some("")

(* mutant: the override is ignored *)
EffectiveReduction_configured(obj, reduction_override) == obj.reduction

EffectiveReduction(obj, reduction_override) ==
    IF Truthy(reduction_override) THEN reduction_override[1] ELSE obj.reduction

(* mutant: the override is not checked *)
forward_unchecked(obj, pred, target, weight, avg_factor, reduction_override) ==
    LET r == sigmoid_focal_loss(pred, target, weight, obj.gamma, obj.alpha,
                                EffectiveReduction(obj, reduction_override), avg_factor)
    IN IF r.status = "ok" THEN Return(ScalarTimes(obj.loss_weight, r.value[1])) ELSE r

forward(obj, pred, target, weight, avg_factor, reduction_override) ==
    IF reduction_override \notin {None, Some("none"), Some("mean"), Some("sum")}
    THEN Raise("InvalidArgument", 93)
    ELSE LET r == sigmoid_focal_loss(pred, target, weight, obj.gamma, obj.alpha,
                                     EffectiveReduction(obj, reduction_override), avg_factor)
         IN IF r.status = "ok" THEN Return(ScalarTimes(obj.loss_weight, r.value[1])) ELSE r

(* ------------------------------- inputs -------------------------------- *)
Shapes ==
    {<<n>> : n \in 1..MaxN}
    \cup {<<n, c>> : n \in 1..MaxN, c \in 1..MaxC}
    \cup {<<n, c, d>> : n \in 1..MaxN, c \in 1..MaxC, d \in 1..MaxC}

LogitCycle == <<20, -2, 0, 2, -20>>
PredOf(s, o) == [shape |-> s, data |-> [k \in 1..Prod(s) |-> LogitCycle[((k - 1 + o) % 5) + 1]]]
TargetOf(s, o) == [shape |-> s, data |-> [k \in 1..Prod(s) |-> (k + o) % 2]]
WeightOf(s, o) == [shape |-> s, data |-> [k \in 1..Prod(s) |-> (k + o) % (MaxWeight + 1)]]

Preds == {PredOf(s, 0) : s \in Shapes}

(* the shapes a target is given for a prediction of shape s: s itself, s *)
(* without its last dimension, s with a trailing 1, s with another batch  *)
OtherShapes(s) ==
    (IF Len(s) > 1 THEN {SubSeq(s, 1, Len(s) - 1)} ELSE {})
    \cup (IF Len(s) < 3 THEN {Append(s, 1)} ELSE {})
    \cup {[s EXCEPT ![1] = (s[1] % MaxN) + 1]}
TargetsFor(pred) ==
    {TargetOf(pred.shape, o) : o \in {0, 1}}
    \cup {TargetOf(s, 1) : s \in OtherShapes(pred.shape) \ {pred.shape}}

Weights ==
    {None, Some(WeightOf(<<>>, 0)), Some(WeightOf(<<MaxN, 1>>, 0))}
    \cup {Some(WeightOf(<<n>>, o)) : n \in 1..(MaxN + 1), o \in {0, 1}}

(* <<gamma, alpha>>: the defaults, and the degenerate pair *)
FocalParams == {<<DefaultGamma, DefaultAlpha>>, <<0, 50>>}
Reductions == {"none", "mean", "sum", "max"}
Overrides == {None} \cup {Some(r) : r \in Reductions}
AvgFactors == {None, Some(3)}
(* <<gamma, alpha, loss_weight>> of a module: the defaults, and the degenerate *)
(* pair with half the weight                                                   *)
ModuleParams == {<<DefaultGamma, DefaultAlpha, DefaultLossWeight>>, <<0, 50, 50>>}

(* ------------------------------ behaviour ------------------------------ *)
Idle == [op |-> "idle"]
NoOutcome == Raise("none", 0)

(* FocalLoss.__init__ has run *)
Init ==
    /\ self \in {FocalLoss(m[1], m[2], r, m[3]) : m \in ModuleParams, r \in Reductions}
    /\ call = Idle
    /\ out = NoOutcome

(* a call of sigmoid_focal_loss *)
Compute ==
    /\ call = Idle
    /\ \E pred \in Preds, weight \in Weights, ga \in FocalParams,
          reduction \in Reductions, avg_factor \in AvgFactors :
         \E target \in TargetsFor(pred) :
           /\ call' = [op |-> "compute", pred |-> pred, target |-> target, weight |-> weight,
                       gamma |-> ga[1], alpha |-> ga[2], reduction |-> reduction,
                       avg_factor |-> avg_factor, reduction_override |-> None]
           /\ out' = sigmoid_focal_loss(pred, target, weight, ga[1], ga[2], reduction, avg_factor)
    /\ UNCHANGED self

(* a call of FocalLoss.forward; gamma, alpha and reduction record what it *)
(* hands to sigmoid_focal_loss                                            *)
Forward ==
    /\ call = Idle
    /\ \E pred \in Preds, weight \in Weights, avg_factor \in AvgFactors,
          reduction_override \in Overrides :
         \E target \in TargetsFor(pred) :
           /\ call' = [op |-> "forward", pred |-> pred, target |-> target, weight |-> weight,
                       gamma |-> self.gamma, alpha |-> self.alpha,
                       reduction |-> EffectiveReduction(self, reduction_override),
                       avg_factor |-> avg_factor, reduction_override |-> reduction_override]
           /\ out' = forward(self, pred, target, weight, avg_factor, reduction_override)
    /\ UNCHANGED self

(* the caller has taken the outcome; nothing of the call is kept *)
Finish ==
    /\ call # Idle
    /\ call' = Idle
    /\ out' = NoOutcome
    /\ UNCHANGED self

Next == Compute \/ Forward \/ Finish

Spec == Init /\ [][Next]_vars

(* ------------------------------- claims -------------------------------- *)
ValidOverrides == {None, Some("none"), Some("mean"), Some("sum")}
ValidReductions == {"none", "mean", "sum"}

(* the call has entered sigmoid_focal_loss, directly or through forward *)
InCompute ==
    \/ call.op = "compute"
    \/ call.op = "forward" /\ call.reduction_override \in ValidOverrides

SameShape == call.pred.shape = call.target.shape
WeightIs1D == call.weight # None /\ Dim(call.weight[1]) = 1
WeightBroadcasts ==
    Broadcastable(call.pred.shape, PrepareWeight(call.pred, call.weight)[1].shape)

(* C1: a call of sigmoid_focal_loss (direct, or through forward with a valid *)
(* reduction_override) whose pred and target differ in shape fails with      *)
(* ShapeMismatch and returns no value, whatever the other arguments are.     *)
C1_ShapeMismatch ==
    (InCompute /\ ~SameShape) => (out.status = "ShapeMismatch" /\ out.value = None)

C1_Witness ==
    /\ call.op = "forward"
    /\ ~SameShape
    /\ Numel(call.pred) = Numel(call.target)
    /\ call.weight # None /\ Dim(call.weight[1]) = 2
    /\ call.reduction = "max"
    /\ call.avg_factor # None
    /\ out.status = "ShapeMismatch"

(* C2: every step leaves the configuration as it is, and a forward call that *)
(* succeeds returns loss_weight times sigmoid_focal_loss under the configured *)
(* gamma and alpha and the reduction of that call: the override when given,   *)
(* the configured reduction when the override is None.                        *)
C2_ForwardDelegates ==
    [][/\ self' = self
       /\ (call'.op = "forward" /\ out'.status = "ok") =>
            LET eff == IF call'.reduction_override = None
                       THEN self.reduction ELSE call'.reduction_override[1]
                c == sigmoid_focal_loss(call'.pred, call'.target, call'.weight,
                                        self.gamma, self.alpha, eff, call'.avg_factor)
            IN /\ call'.reduction_override \in ValidOverrides
               /\ c.status = "ok"
               /\ out'.value = Some(ScalarTimes(self.loss_weight, c.value[1]))]_vars

C2_Witness ==
    /\ call.op = "forward"
    /\ out.status = "ok"
    /\ call.reduction_override = Some("sum")
    /\ self.reduction = "mean"
    /\ self.loss_weight = 50
    /\ out.value[1].data[1] > 0

(* C3: a forward call whose reduction_override is not None, none, mean or sum *)
(* fails with InvalidArgument at the override check, before the shape check   *)
(* or anything else, and produces no output.                                  *)
C3_InvalidOverride ==
    (call.op = "forward" /\ call.reduction_override \notin ValidOverrides) =>
        (out.status = "InvalidArgument" /\ out.at = 93 /\ out.value = None)

C3_Witness ==
    /\ call.op = "forward"
    /\ call.reduction_override = Some("max")
    /\ ~SameShape
    /\ self.reduction = "mean"
    /\ out.status = "InvalidArgument"

(* C4 as claimed: with matching shapes, a reduction outside none/mean/sum and *)
(* a weight that is None or 1-D, the call fails with InvalidArgument.         *)
C4_Original ==
    (InCompute /\ SameShape /\ call.reduction \notin ValidReductions
       /\ (call.weight = None \/ WeightIs1D)) =>
        (out.status = "InvalidArgument" /\ out.value = None)

(* C4 as amended: with matching shapes, a reduction outside none/mean/sum and *)
(* a weight that is None or 1-D, the call fails and returns no value: with a  *)
(* broadcast RuntimeError when the weight does not broadcast against the      *)
(* per-element loss, and with InvalidArgument in every other case, whatever   *)
(* avg_factor is.                                                             *)
C4_InvalidReduction ==
    (InCompute /\ SameShape /\ call.reduction \notin ValidReductions
       /\ (call.weight = None \/ WeightIs1D)) =>
        /\ out.value = None
        /\ out.status = IF call.weight # None /\ ~WeightBroadcasts
                        THEN "RuntimeError" ELSE "InvalidArgument"

C4_Witness ==
    /\ call.op = "forward"
    /\ call.reduction_override = None
    /\ self.reduction = "max"
    /\ SameShape
    /\ WeightIs1D
    /\ call.avg_factor # None
    /\ out.status = "InvalidArgument"
    /\ out.at = 51

(* C5: with matching shapes, a weight that is given and is not 1-D makes the *)
(* call fail with InvalidArgument at the rank check and return no value;     *)
(* with weight None the rank check is skipped, no failure comes from the     *)
(* weight, and the call succeeds under reduction none.                       *)
C5_WeightRank ==
    (InCompute /\ SameShape) =>
        /\ (call.weight # None /\ Dim(call.weight[1]) # 1) =>
              (out.status = "InvalidArgument" /\ out.at = 47 /\ out.value = None)
        /\ (call.weight = None) =>
              /\ out.at # 47
              /\ out.status # "RuntimeError"
              /\ (call.reduction = "none" => out.status = "ok")

C5_Witness ==
    /\ call.op = "compute"
    /\ SameShape
    /\ call.weight # None /\ Dim(call.weight[1]) = 0
    /\ call.reduction = "max"
    /\ out.status = "InvalidArgument"
    /\ out.at = 47

(* the per-element loss at flat position k of the call's pred and target *)
ElemAt(k) == FocalElem(call.pred.data[k], call.target.data[k], call.gamma, call.alpha)
RowOf(k) == ((k - 1) \div call.pred.shape[2]) + 1
WeightAt(i) == ToFloat(call.weight[1].data[i])

(* the per-element losses of an (N, C) call, each times its own row's weight, *)
(* the rows of weight 0 replaced by 0                                         *)
RowWeighted ==
    [k \in 1..Numel(call.pred) |->
        IF call.weight[1].data[RowOf(k)] = 0 THEN 0 ELSE Mul(ElemAt(k), WeightAt(RowOf(k)))]

(* C6: for pred and target of shape (N, C) and a 1-D weight of length N, the *)
(* loss at (i, j) is multiplied by weight[i] and by no other entry: under    *)
(* none the result holds loss[i][j] * weight[i] (zero along a row of weight  *)
(* 0), and sum and mean are the sum and mean of those products, the rows of  *)
(* weight 0 contributing 0.                                                  *)
C6_RowWeighting ==
    (call.op = "compute" /\ SameShape /\ Dim(call.pred) = 2 /\ WeightIs1D
       /\ call.weight[1].shape = <<call.pred.shape[1]>>) =>
        /\ call.reduction = "none" =>
              /\ out.status = "ok"
              /\ out.value[1].shape = call.pred.shape
              /\ \A k \in 1..Numel(call.pred) :
                    /\ out.value[1].data[k] = Mul(ElemAt(k), WeightAt(RowOf(k)))
                    /\ call.weight[1].data[RowOf(k)] = 0 => out.value[1].data[k] = 0
        /\ (call.reduction = "sum" /\ call.avg_factor = None) =>
              out.value = Some(Scalar(SumSeq(RowWeighted)))
        /\ (call.reduction = "mean" /\ call.avg_factor = None) =>
              out.value = Some(Scalar(SumSeq(RowWeighted) \div Numel(call.pred)))
        /\ (call.reduction = "mean" /\ call.avg_factor # None) =>
              out.value = Some(Scalar(SumSeq(RowWeighted) \div call.avg_factor[1]))

C6_Witness ==
    /\ call.op = "compute"
    /\ call.pred.shape = <<2, 2>>
    /\ SameShape
    /\ call.weight = Some([shape |-> <<2>>, data |-> <<2, 0>>])
    /\ call.reduction = "sum"
    /\ out.status = "ok"
    /\ ElemAt(3) + ElemAt(4) > 0
    /\ out.value[1].data[1] = 2 * (ElemAt(1) + ElemAt(2))
    /\ out.value[1].data[1] > 0

(* the weighted per-element losses of the call: what reduction none returns *)
Unreduced ==
    sigmoid_focal_loss(call.pred, call.target, call.weight, call.gamma, call.alpha, "none", None)

(* C7: under reduction mean, a successful call returns the sum of the        *)
(* weighted per-element losses divided by the number of elements when        *)
(* avg_factor is None, and that sum divided by avg_factor when it is given.  *)
C7_MeanAvgFactor ==
    (call.op = "compute" /\ call.reduction = "mean" /\ out.status = "ok") =>
        /\ Unreduced.status = "ok"
        /\ out.value[1].shape = <<>>
        /\ out.value[1].data[1] =
              IF call.avg_factor = None
              THEN SumSeq(Unreduced.value[1].data) \div Len(Unreduced.value[1].data)
              ELSE SumSeq(Unreduced.value[1].data) \div call.avg_factor[1]

C7_Witness ==
    /\ call.op = "compute"
    /\ call.reduction = "mean"
    /\ call.avg_factor = Some(3)
    /\ out.status = "ok"
    /\ Numel(call.pred) = 4
    /\ out.value[1].data[1] # SumSeq(Unreduced.value[1].data) \div 4
    /\ out.value[1].data[1] > 0

(* C8 as claimed, on the documented inputs (pred and target of one shape,  *)
(* batch first, the weight None or 1-D of length N): a successful call under *)
(* reduction none returns an array of the shape of pred, and under mean and *)
(* sum a scalar.                                                            *)
C8_ShapePreserved ==
    (call.op = "compute" /\ SameShape /\ out.status = "ok"
       /\ (call.weight = None
            \/ (WeightIs1D /\ call.weight[1].shape = <<call.pred.shape[1]>>))) =>
        /\ call.reduction = "none" => out.value[1].shape = call.pred.shape
        /\ call.reduction \in {"mean", "sum"} => out.value[1].shape = <<>>

(* valid inputs: pred and target of one shape (N,) or (N, C), the weight None *)
(* or 1-D of length N                                                         *)
ValidInputs ==
    /\ SameShape
    /\ Dim(call.pred) <= 2
    /\ call.weight = None \/ (WeightIs1D /\ call.weight[1].shape = <<call.pred.shape[1]>>)

(* C9: under reduction none avg_factor changes nothing: a call with an       *)
(* avg_factor ends as the same call without one does, and on valid inputs    *)
(* it succeeds with the per-element array.                                   *)
C9_AvgFactorNoOp ==
    (call.op = "compute" /\ call.reduction = "none" /\ call.avg_factor # None) =>
        /\ out = Unreduced
        /\ ValidInputs => (out.status = "ok" /\ out.value[1].shape = call.pred.shape)

C9_Witness ==
    /\ call.op = "compute"
    /\ call.reduction = "none"
    /\ call.avg_factor = Some(3)
    /\ ValidInputs
    /\ call.weight # None
    /\ Numel(call.pred) = 4
    /\ out.status = "ok"
    /\ \E k \in 1..4 : out.value[1].data[k] >= 3

(* C10: with gamma = 0 and alpha = 0.5 the focal weight of every element is  *)
(* 0.5, also where pt is 0, and the per-element loss under reduction none    *)
(* with weight None is 0.5 times the binary cross-entropy with logits.       *)
C10_DegenerateGamma ==
    (call.op = "compute" /\ SameShape /\ call.gamma = 0 /\ call.alpha = 50
       /\ call.weight = None /\ call.reduction = "none") =>
        /\ out.status = "ok"
        /\ \A k \in 1..Numel(call.pred) :
              /\ FocalWeight(call.pred.data[k], call.target.data[k], call.gamma, call.alpha) = 50
              /\ out.value[1].data[k] =
                    Mul(50, BCEWithLogits(call.pred.data[k], ToFloat(call.target.data[k])))

C10_Witness ==
    /\ call.op = "compute"
    /\ SameShape
    /\ call.gamma = 0 /\ call.alpha = 50
    /\ call.weight = None /\ call.reduction = "none"
    /\ out.status = "ok"
    /\ \E k \in 1..Numel(call.pred) : PtOf(call.pred.data[k], call.target.data[k]) = 0
    /\ \E k \in 1..Numel(call.pred) : out.value[1].data[k] > 0

====
